---- MODULE Spec2Model ----
(***************************************************************************)
(* Model of meet-minutes (src/main.py): a Flask webhook that fetches a     *)
(* Fireflies transcript, resolves a Slack channel from the meeting title,  *)
(* asks an LLM for a summary, strips stray emoji and posts to Slack.       *)
(*                                                                         *)
(* Python strings are sequences of Unicode code points (naturals), so that *)
(* substring tests, regular expressions and code point ranges are computed *)
(* as the code computes them.                                              *)
(***************************************************************************)
EXTENDS Integers, Sequences, FiniteSets, TLC

VARIABLES
    CHANNEL_MAP,     \* the title -> channel table, an insertion-ordered dict
    rc_pc,           \* resolver harness: "call" | "done"
    rc_title,        \* resolver harness: the title passed to resolve_channel
    rc_result,       \* resolver harness: the channel returned
    se_pc,           \* sanitizer harness: "call" | "once" | "twice"
    se_text,         \* sanitizer harness: the text passed to strip_emojis
    se_once,         \* sanitizer harness: strip_emojis(text)
    se_twice,        \* sanitizer harness: strip_emojis(strip_emojis(text))
    pn_pc,           \* participant harness: "call" | "done"
    pn_participants, \* participant harness: the participants list
    pn_names,        \* participant harness: the value extracted per participant
    pn_joined,       \* participant harness: outcome of ", ".join(...)
    wh_pc,           \* webhook_fireflies: the statement the request is at
    wh_meeting_id,      \* payload.get("meetingId")
    wh_transcript_data, \* what fetch_transcript returned
    wh_title,           \* locals of webhook_fireflies
    wh_participants,
    wh_transcript,
    wh_channel,
    wh_summary,
    fetch_outcome,   \* how each external call of this request ended
    generate_outcome,
    post_outcome,
    calls,           \* history: the calls this request made, in order
    response         \* the HTTP response of the request

rcVars == <<rc_pc, rc_title, rc_result>>
seVars == <<se_pc, se_text, se_once, se_twice>>
pnVars == <<pn_pc, pn_participants, pn_names, pn_joined>>
whLocals == <<wh_meeting_id, wh_transcript_data, wh_title, wh_participants, wh_transcript,
              wh_channel, wh_summary>>
whOutcomes == <<fetch_outcome, generate_outcome, post_outcome>>
whVars == <<wh_pc, whLocals, whOutcomes, calls, response>>
vars == <<CHANNEL_MAP, rcVars, seVars, pnVars, whVars>>

\* Each specification below runs one harness; the others stay idle.
ResolveIdle == rc_pc = "off" /\ rc_title = <<>> /\ rc_result = ""
SanitizerIdle ==
    se_pc = "off" /\ se_text = <<>> /\ se_once = <<>> /\ se_twice = <<>>
NoOutcome == [raised |-> FALSE, exc |-> "", value |-> <<>>]
ParticipantsIdle ==
    pn_pc = "off" /\ pn_participants = <<>> /\ pn_names = <<>> /\ pn_joined = NoOutcome

NoResponse == [status |-> 0, error |-> "", channel |-> ""]
NoTranscriptData ==
    [isNone |-> TRUE,
     title |-> [t |-> "absent", v |-> <<>>],
     participants |-> [t |-> "absent", v |-> <<>>],
     sentences |-> [t |-> "absent", v |-> <<>>]]
WebhookIdle ==
    /\ wh_pc = "off" /\ wh_meeting_id = [t |-> "absent", v |-> <<>>]
    /\ wh_transcript_data = NoTranscriptData
    /\ wh_title = [t |-> "absent", v |-> <<>>] /\ wh_participants = <<>>
    /\ wh_transcript = <<>> /\ wh_channel = "" /\ wh_summary = <<>>
    /\ fetch_outcome = "none" /\ generate_outcome = "none" /\ post_outcome = "none"
    /\ calls = <<>> /\ response = NoResponse

\* A table with the "default" entry alone, for the harnesses that read no table.
DefaultOnlyChannelMap == <<[key |-> <<100,101,102,97,117,108,116>>, channel |-> "C0AG7SAK8MR"]>>

(***************************************************************************)
(* Bounds of the model.                                                    *)
(***************************************************************************)
MaxKeys == 3         \* entries of a generated channel table, "default" included
MaxKeyLen == 2       \* code points of a generated table key
MaxTitleLen == 3     \* code points of a generated title
MaxTextLen == 5      \* code points of a generated summary text
MaxParticipants == 2 \* participants of a generated participants list

(***************************************************************************)
(* Python str helpers.                                                     *)
(***************************************************************************)
\* All sequences over S of length lo..hi.
SeqsOf(S, lo, hi) == UNION {[1..n -> S] : n \in lo..hi}

\* s in t  (str.__contains__): s occurs in t as a contiguous run.
Contains(t, s) ==
    \E i \in 0..(Len(t) - Len(s)) : SubSeq(t, i + 1, i + Len(s)) = s

\* t.startswith(p)
StartsWith(t, p) == Len(p) <= Len(t) /\ SubSeq(t, 1, Len(p)) = p

(***************************************************************************)
(* CHANNEL_MAP                                                             *)
(***************************************************************************)
\* The key "default".
DefaultKey == <<100,101,102,97,117,108,116>>

\* The table as shipped, in insertion order.
ShippedChannelMap == <<
    [key |-> <<91,79,78,76,73,78,69,93,32,109,117,114,109,111,32,45,32,87,101,
               101,107,108,121,32,77,97,114,107,101,116,105,110,103,32,83,121,
               110,99>>,                               channel |-> "C08MHTH29BR"],
    [key |-> <<65339,79,78,76,73,78,69,65341,67,104,97,109,97,100,104,105,32,
               85,83,32,87,101,101,107,108,121>>,      channel |-> "C08S4GS02RG"],
    [key |-> <<91,79,78,76,73,78,69,93,32,119,101,101,107,108,121,32,109,116,
               103,32,45,32,82,101,105,110,97>>,       channel |-> "C09G09ZT8F7"],
    [key |-> <<66,69,32,83,69,75,73,82,65,82,65,32,76,79,85,78,71,69,32,45,32,
               72,97,110,97,110,111,32,23450,20363>>,  channel |-> "C0A9T9MBNBW"],
    [key |-> <<83,69,75,73,82,65,82,65,32,47,32,67,104,97,109,97,100,104,105,
               32,119,101,101,107,108,121>>,           channel |-> "C09KSKV8T6C"],
    [key |-> <<83,69,75,73,82,65,82,65,32,119,101,101,107,108,121,32,119,105,
               116,104,32,72,105,110,97,110,111>>,     channel |-> "C0A8SCR85V2"],
    [key |-> DefaultKey,                               channel |-> "C0AG7SAK8MR"] >>

\* Other tables the dict literal could hold: distinct keys over the letters
\* a, b, exactly one "default" entry at any position, one channel per entry.
\* The shipped keys neither contain one another nor relate to "default"; the
\* generated ones do, which is what the order of the resolver's steps is about.
KeyLetters == {97, 98}
GeneratedKeys == SeqsOf(KeyLetters, 1, MaxKeyLen)
ChannelIds == <<"C1", "C2", "C3", "C4", "C5", "C6">>
KeyLists ==
    {ks \in SeqsOf(GeneratedKeys \cup {DefaultKey}, 1, MaxKeys) :
        /\ \A i, j \in 1..Len(ks) : ks[i] = ks[j] => i = j
        /\ \E i \in 1..Len(ks) : ks[i] = DefaultKey}
GeneratedChannelMaps ==
    {[i \in 1..Len(ks) |-> [key |-> ks[i], channel |-> ChannelIds[i]]] :
        ks \in KeyLists}
ChannelMaps == {ShippedChannelMap} \cup GeneratedChannelMaps

\* Index of the entry with this key (dict keys are unique), 0 when absent.
IndexOfKey(table, key) ==
    IF \E i \in 1..Len(table) : table[i].key = key
    THEN CHOOSE i \in 1..Len(table) : table[i].key = key
    ELSE 0

\* The entries the loop of resolve_channel stops at, in table order.
ScanHits(table, title) ==
    {i \in 1..Len(table) :
        /\ table[i].key # DefaultKey
        /\ (Contains(title, table[i].key) \/ Contains(table[i].key, title))}

Min(S) == CHOOSE x \in S : \A y \in S : x <= y

\* for key, channel in CHANNEL_MAP.items(): ... return CHANNEL_MAP["default"]
ScanThenDefault(table, title) ==
    IF ScanHits(table, title) # {}
    THEN table[Min(ScanHits(table, title))].channel
    ELSE table[IndexOfKey(table, DefaultKey)].channel

\* Mutant: the exact-match step is missing.
resolve_channel_NoExact(title) == ScanThenDefault(CHANNEL_MAP, title)

\* Mutant: the fall-through returns the first entry instead of "default".
resolve_channel_NoDefault(title) ==
    IF IndexOfKey(CHANNEL_MAP, title) # 0
    THEN CHANNEL_MAP[IndexOfKey(CHANNEL_MAP, title)].channel
    ELSE IF ScanHits(CHANNEL_MAP, title) # {}
         THEN CHANNEL_MAP[Min(ScanHits(CHANNEL_MAP, title))].channel
         ELSE CHANNEL_MAP[1].channel

\* resolve_channel(title) for a str title.
resolve_channel(title) ==
    IF IndexOfKey(CHANNEL_MAP, title) # 0
    THEN CHANNEL_MAP[IndexOfKey(CHANNEL_MAP, title)].channel
    ELSE ScanThenDefault(CHANNEL_MAP, title)

(***************************************************************************)
(* Resolver harness: resolve_channel applied once to a title, under any    *)
(* table.                                                                  *)
(***************************************************************************)
RandomStandup == <<82,97,110,100,111,109,32,83,116,97,110,100,117,112>>
Sekirara == <<83,69,75,73,82,65,82,65>>
ShippedTitles ==
    {ShippedChannelMap[i].key : i \in 1..Len(ShippedChannelMap)}
        \cup {RandomStandup, Sekirara,
              ShippedChannelMap[6].key \o <<32>> \o ShippedChannelMap[5].key}
Titles == SeqsOf(KeyLetters, 0, MaxTitleLen) \cup {DefaultKey} \cup ShippedTitles

InitResolve ==
    /\ SanitizerIdle
    /\ WebhookIdle
    /\ ParticipantsIdle
    /\ CHANNEL_MAP \in ChannelMaps
    /\ rc_title \in Titles
    /\ rc_pc = "call"
    /\ rc_result = ""

CallResolve ==
    /\ rc_pc = "call"
    /\ rc_result' = resolve_channel(rc_title)
    /\ rc_pc' = "done"
    /\ UNCHANGED <<CHANNEL_MAP, rc_title, seVars, pnVars, whVars>>

NextResolve == CallResolve

SpecResolve == InitResolve /\ [][NextResolve]_vars

(***************************************************************************)
(* Claims about resolve_channel (checked under SpecResolve).               *)
(***************************************************************************)
NonDefaultRelated(table, title) ==
    {i \in 1..Len(table) :
        /\ table[i].key # DefaultKey
        /\ (Contains(title, table[i].key) \/ Contains(table[i].key, title))}

\* C4: for every title equal to a key of the table, resolve_channel returns
\* the channel mapped to that key, whatever other keys contain the title or
\* are contained in it, and wherever they stand in the table.
C4_ExactKeyWins ==
    (rc_pc = "done" /\ \E i \in 1..Len(CHANNEL_MAP) : CHANNEL_MAP[i].key = rc_title)
        => \A i \in 1..Len(CHANNEL_MAP) :
               CHANNEL_MAP[i].key = rc_title => rc_result = CHANNEL_MAP[i].channel

\* C4 witness: the title is a key, an earlier non-default key is a substring
\* of it, and the later, equal key's channel was returned.
C4_Witness ==
    /\ rc_pc = "done"
    /\ \E i, j \in 1..Len(CHANNEL_MAP) :
          /\ j < i
          /\ CHANNEL_MAP[i].key = rc_title
          /\ CHANNEL_MAP[j].key # DefaultKey
          /\ Contains(rc_title, CHANNEL_MAP[j].key)
          /\ rc_result = CHANNEL_MAP[i].channel
          /\ rc_result # CHANNEL_MAP[j].channel

\* C5: a title that equals no key and has no substring relationship with any
\* non-default key resolves to the channel of the "default" entry.
C5_UnrelatedGetsDefault ==
    (/\ rc_pc = "done"
     /\ \A i \in 1..Len(CHANNEL_MAP) : CHANNEL_MAP[i].key # rc_title
     /\ NonDefaultRelated(CHANNEL_MAP, rc_title) = {})
        => \E i \in 1..Len(CHANNEL_MAP) :
               CHANNEL_MAP[i].key = DefaultKey /\ rc_result = CHANNEL_MAP[i].channel

\* C5 witness: such a title, under a table whose first entry is not the
\* default one, resolved to the default channel.
C5_Witness ==
    /\ rc_pc = "done"
    /\ \A i \in 1..Len(CHANNEL_MAP) : CHANNEL_MAP[i].key # rc_title
    /\ NonDefaultRelated(CHANNEL_MAP, rc_title) = {}
    /\ Len(rc_title) > 0
    /\ CHANNEL_MAP[1].key # DefaultKey
    /\ rc_result # CHANNEL_MAP[1].channel

HEADING_EMOJIS == {<<127919>>, <<128226>>, <<9989>>, <<9203>>, <<9654, 65039>>}

\* The character class of emoji_pattern, as its code point ranges.
EmojiRanges == {
    <<128512, 128591>>,   \* U+1F600-U+1F64F
    <<127744, 128511>>,   \* U+1F300-U+1F5FF
    <<128640, 128767>>,   \* U+1F680-U+1F6FF
    <<127456, 127487>>,   \* U+1F1E0-U+1F1FF
    <<9986, 10160>>,      \* U+2702-U+27B0
    <<9410, 127569>>,     \* U+24C2-U+1F251
    <<129280, 129535>>,   \* U+1F900-U+1F9FF
    <<129536, 129647>>,   \* U+1FA00-U+1FA6F
    <<129648, 129791>>,   \* U+1FA70-U+1FAFF
    <<9728, 9983>>,       \* U+2600-U+26FF
    <<65024, 65039>>,     \* U+FE00-U+FE0F
    <<8205, 8205>> }      \* U+200D
InEmojiPattern(c) == \E r \in EmojiRanges : r[1] <= c /\ c <= r[2]

\* The code points str.lstrip() removes (str.isspace).
PyWhitespace ==
    {9, 10, 11, 12, 13, 28, 29, 30, 31, 32, 133, 160, 5760} \cup (8192..8202)
        \cup {8232, 8233, 8239, 8287, 12288}

\* The class [a-zA-Z0-9_+-] of the inline emoji code pattern.
CodeWordChar(c) ==
    c \in (97..122) \cup (65..90) \cup (48..57) \cup {95, 43, 45}

Colon == <<58>>
Newline == <<10>>

\* text.split(sep) for a one code point separator.
RECURSIVE Split(_, _)
Split(s, sep) ==
    IF \E i \in 1..Len(s) : s[i] = sep[1]
    THEN LET i == Min({j \in 1..Len(s) : s[j] = sep[1]})
         IN  <<SubSeq(s, 1, i - 1)>> \o Split(SubSeq(s, i + 1, Len(s)), sep)
    ELSE <<s>>

\* sep.join(parts)
RECURSIVE Join(_, _)
Join(parts, sep) ==
    IF Len(parts) = 0 THEN <<>>
    ELSE IF Len(parts) = 1 THEN parts[1]
    ELSE parts[1] \o sep \o Join(Tail(parts), sep)

\* line.lstrip()
RECURSIVE lstrip(_)
lstrip(line) ==
    IF Len(line) > 0 /\ line[1] \in PyWhitespace THEN lstrip(Tail(line)) ELSE line

\* any(stripped.startswith(e) for e in HEADING_EMOJIS)
IsHeadingLine(line) == \E e \in HEADING_EMOJIS : StartsWith(lstrip(line), e)

\* Length of the run of code word characters of s that starts at position i.
RECURSIVE WordRun(_, _)
WordRun(s, i) ==
    IF i <= Len(s) /\ CodeWordChar(s[i]) THEN 1 + WordRun(s, i + 1) ELSE 0

\* Whether :[a-zA-Z0-9_+-]+: matches at position i of s. The class excludes
\* the colon, so the greedy run either ends at a colon or the match fails.
CodeMatchAt(s, i) ==
    /\ i <= Len(s)
    /\ s[i] = Colon[1]
    /\ WordRun(s, i + 1) >= 1
    /\ i + 1 + WordRun(s, i + 1) <= Len(s)
    /\ s[i + 1 + WordRun(s, i + 1)] = Colon[1]

\* re.sub(r":[a-zA-Z0-9_+-]+:", "", line): one left-to-right pass over the
\* non-overlapping matches, scanning from position i.
RECURSIVE SubEmojiCodes(_, _)
SubEmojiCodes(s, i) ==
    IF i > Len(s) THEN <<>>
    ELSE IF CodeMatchAt(s, i) THEN SubEmojiCodes(s, i + WordRun(s, i + 1) + 2)
    ELSE <<s[i]>> \o SubEmojiCodes(s, i + 1)

\* emoji_pattern.sub("", line)
SubEmojiPattern(line) == SelectSeq(line, LAMBDA c : ~InEmojiPattern(c))

\* The body of the loop of strip_emojis for one line.
StripLine(line) ==
    IF IsHeadingLine(line) THEN line
    ELSE SubEmojiPattern(SubEmojiCodes(line, 1))

strip_emojis(text) ==
    LET lines == Split(text, Newline)
    IN  Join([i \in 1..Len(lines) |-> StripLine(lines[i])], Newline)

(***************************************************************************)
(* Sanitizer harness: strip_emojis applied to a text, then to its result.  *)
(***************************************************************************)
\* ':', 'a', newline, space, U+1F600, U+23F3 (a heading glyph), U+4F1A (kanji)
TextLetters == {58, 97, 10, 32, 128512, 9203, 20250}
ExampleTexts == {
    \* a heading line, then a body line with a stray U+1F600
    <<127919, 32, 42, 49, 46, 42, 10, 8226, 32, 97, 32, 128512, 32, 98>>,
    \* an indented U+25B6 U+FE0F heading that carries an inline code
    <<32, 9654, 65039, 32, 58, 97, 58, 10, 58, 43, 49, 58, 32, 111, 107>>,
    \* Japanese body text
    <<8226, 32, 20250, 35696, 12398, 30446, 30340>> }
Texts == SeqsOf(TextLetters, 0, MaxTextLen) \cup ExampleTexts

InitStrip ==
    /\ CHANNEL_MAP = DefaultOnlyChannelMap
    /\ WebhookIdle
    /\ ResolveIdle
    /\ ParticipantsIdle
    /\ se_text \in Texts
    /\ se_pc = "call"
    /\ se_once = <<>>
    /\ se_twice = <<>>

StripOnce ==
    /\ se_pc = "call"
    /\ se_once' = strip_emojis(se_text)
    /\ se_pc' = "once"
    /\ UNCHANGED <<CHANNEL_MAP, rcVars, pnVars, whVars, se_text, se_twice>>

StripTwice ==
    /\ se_pc = "once"
    /\ se_twice' = strip_emojis(se_once)
    /\ se_pc' = "twice"
    /\ UNCHANGED <<CHANNEL_MAP, rcVars, pnVars, whVars, se_text, se_once>>

NextStrip == StripOnce \/ StripTwice

SpecStrip == InitStrip /\ [][NextStrip]_vars

(***************************************************************************)
(* Claims about strip_emojis (checked under SpecStrip).                    *)
(***************************************************************************)
\* Whether the line holds an inline emoji code of the form :word:.
HasInlineCode(line) == \E i \in 1..Len(line) : CodeMatchAt(line, i)

\* Hiragana, katakana and CJK unified ideographs: Japanese body text.
JapaneseText(c) == c \in (12352..12543) \cup (19968..40959)

\* C6: strip_emojis is idempotent.
C6_Idempotent == se_pc = "twice" => se_twice = se_once

\* C7: strip_emojis returns as many lines, in order; a heading line is
\* returned unchanged and every other returned line holds no inline emoji
\* code and no code point of the stripped ranges.
C7_LinesSanitized ==
    se_pc \in {"once", "twice"} =>
        LET in  == Split(se_text, Newline)
            out == Split(se_once, Newline)
        IN  /\ Len(out) = Len(in)
            /\ \A i \in 1..Len(in) :
                  IF IsHeadingLine(in[i])
                  THEN out[i] = in[i]
                  ELSE /\ ~HasInlineCode(out[i])
                       /\ \A k \in 1..Len(out[i]) : ~InEmojiPattern(out[i][k])

\* C8: on a non-heading line nothing but inline emoji codes and emoji is
\* removed; in particular the Japanese text of the line is kept, in order.
C8_BodyTextKept ==
    se_pc \in {"once", "twice"} =>
        LET in  == Split(se_text, Newline)
            out == Split(se_once, Newline)
        IN  \A i \in 1..Len(in) :
                (i <= Len(out) /\ ~IsHeadingLine(in[i])) =>
                    SelectSeq(out[i], JapaneseText) = SelectSeq(in[i], JapaneseText)

(***************************************************************************)
(* Python values read from JSON, and the outcome of a call.                *)
(***************************************************************************)
Absent == [t |-> "absent", v |-> <<>>]      \* the key is not in the dict
PyNone == [t |-> "None", v |-> <<>>]        \* the key is there, with null
PyStr(s) == [t |-> "str", v |-> s]
PyList(l) == [t |-> "list", v |-> l]

\* d.get(key, default), fv being what the dict holds under the key.
DictGet(fv, default) == IF fv.t = "absent" THEN default ELSE fv

Ret(v) == [raised |-> FALSE, exc |-> "", value |-> v]
Raise(e) == [raised |-> TRUE, exc |-> e, value |-> <<>>]

(***************************************************************************)
(* generate_summary: the participant names.                                *)
(***************************************************************************)
\* A participant: a str, or a dict (kind "dict") of which only displayName,
\* name and email are read.
StrParticipant(s) ==
    [kind |-> "str", s |-> s, displayName |-> Absent, name |-> Absent, email |-> Absent]
DictParticipant(d, n, e) ==
    [kind |-> "dict", s |-> <<>>, displayName |-> d, name |-> n, email |-> e]

\* p if isinstance(p, str) else
\*     p.get("displayName", p.get("name", p.get("email", "")))
ParticipantName(p) ==
    IF p.kind = "str" THEN PyStr(p.s)
    ELSE DictGet(p.displayName, DictGet(p.name, DictGet(p.email, PyStr(<<>>))))

CommaSpace == <<44, 32>>

\* ", ".join(names): TypeError unless every item is a str.
JoinNames(names) ==
    IF \A i \in 1..Len(names) : names[i].t = "str"
    THEN Ret(Join([i \in 1..Len(names) |-> names[i].v], CommaSpace))
    ELSE Raise("TypeError")

\* The names generate_summary extracts, and what joining them gives.
ExtractNames(participants) ==
    [i \in 1..Len(participants) |-> ParticipantName(participants[i])]

(***************************************************************************)
(* Participant harness: the name extraction of generate_summary applied to *)
(* a participants list.                                                    *)
(***************************************************************************)
\* "D", "N", "E" as the values of displayName, name, email; "A" a plain name.
Participants ==
    {StrParticipant(<<65>>)} \cup
    {DictParticipant(d, n, e) :
        d \in {Absent, PyNone, PyStr(<<68>>)},
        n \in {Absent, PyNone, PyStr(<<78>>)},
        e \in {Absent, PyNone, PyStr(<<69>>)}}

InitNames ==
    /\ CHANNEL_MAP = DefaultOnlyChannelMap
    /\ WebhookIdle
    /\ ResolveIdle
    /\ SanitizerIdle
    /\ pn_participants \in SeqsOf(Participants, 0, MaxParticipants)
    /\ pn_pc = "call"
    /\ pn_names = <<>>
    /\ pn_joined = NoOutcome

CallExtractNames ==
    /\ pn_pc = "call"
    /\ pn_names' = ExtractNames(pn_participants)
    /\ pn_joined' = JoinNames(ExtractNames(pn_participants))
    /\ pn_pc' = "done"
    /\ UNCHANGED <<CHANNEL_MAP, rcVars, seVars, whVars, pn_participants>>

NextNames == CallExtractNames

SpecNames == InitNames /\ [][NextNames]_vars

\* C9: participant name extraction never fails and always yields a string:
\* for a str participant, or a dict whose displayName, name and email are
\* each absent or present with any value (null included), the extracted name
\* is a str and joining the names with ", " does not raise.
C9_NamesAreStrings ==
    pn_pc = "done" =>
        /\ \A i \in 1..Len(pn_names) : pn_names[i].t = "str"
        /\ ~pn_joined.raised

(***************************************************************************)
(* webhook_fireflies: one request, statement by statement. The external    *)
(* services answer in any of the ways the code distinguishes. An exception *)
(* that leaves the view function ends the request with Flask's 500.        *)
(***************************************************************************)
UntitledMeeting == <<28961, 38988, 12398, 20250, 35696>>   \* the default title
UnknownSpeaker == <<19981, 26126>>                         \* the default speaker
NoneText == <<78, 111, 110, 101>>                          \* str(None)
ColonSpace == <<58, 32>>
Abc123 == <<97, 98, 99, 49, 50, 51>>

\* f"{value}" of a str or of None.
Format(fv) == IF fv.t = "None" THEN NoneText ELSE fv.v

\* f"{s.get('speaker_name', '...')}: {s.get('text', '')}"
SentenceLine(s) ==
    Format(DictGet(s.speaker_name, PyStr(UnknownSpeaker))) \o ColonSpace
        \o Format(DictGet(s.text, PyStr(<<>>)))

\* x.get(key) or []
GetOrEmptyList(fv) == IF fv.t = "list" THEN fv.v ELSE <<>>

\* "\n".join(... for s in sentences)
RenderSentences(sentences) ==
    Join([i \in 1..Len(sentences) |-> SentenceLine(sentences[i])], Newline)

\* The answers of the Fireflies API with a transcript in them.
Sentences == {
    [speaker_name |-> PyStr(<<65>>), text |-> PyStr(<<104, 105>>)],
    [speaker_name |-> Absent, text |-> Absent],
    [speaker_name |-> PyNone, text |-> PyStr(<<>>)] }
TranscriptDatas ==
    {NoTranscriptData} \cup
    [isNone : {FALSE},
     title : {Absent, PyNone, PyStr(ShippedChannelMap[1].key), PyStr(RandomStandup),
              PyStr(Sekirara)},
     participants : {Absent, PyNone, PyList(<<>>), PyList(<<StrParticipant(<<65>>)>>),
                     PyList(<<DictParticipant(Absent, Absent, PyStr(<<69>>))>>),
                     PyList(<<DictParticipant(PyNone, PyStr(<<78>>), Absent)>>)},
     sentences : {Absent, PyNone, PyList(<<>>)}
                    \cup {PyList(<<x>>) : x \in Sentences}
                    \cup {PyList(<<x, y>>) : x \in {CHOOSE z \in Sentences : z.text = Absent},
                                             y \in Sentences}]

MeetingIds == {Absent, PyNone, PyStr(<<>>), PyStr(Abc123)}
Summaries == ExampleTexts \cup {<<>>}

Call(fn, ch, text) == [fn |-> fn, channel |-> ch, text |-> text]
Called(fn) == \E i \in 1..Len(calls) : calls[i].fn = fn

\* The request ends here with this response.
EndRequest(status, error, ch) ==
    /\ wh_pc' = "done"
    /\ response' = [status |-> status, error |-> error, channel |-> ch]

Init ==
    /\ CHANNEL_MAP = ShippedChannelMap
    /\ ResolveIdle
    /\ SanitizerIdle
    /\ ParticipantsIdle
    /\ wh_pc = "recv"
    /\ wh_meeting_id \in MeetingIds
    /\ wh_transcript_data = NoTranscriptData
    /\ wh_title = Absent /\ wh_participants = <<>>
    /\ wh_transcript = <<>> /\ wh_channel = "" /\ wh_summary = <<>>
    /\ fetch_outcome = "none" /\ generate_outcome = "none" /\ post_outcome = "none"
    /\ calls = <<>> /\ response = NoResponse

\* meeting_id = payload.get("meetingId"); if not meeting_id: return ..., 400
CheckMeetingId ==
    /\ wh_pc = "recv"
    /\ IF wh_meeting_id.t = "str" /\ wh_meeting_id.v # <<>>
       THEN wh_pc' = "fetch" /\ UNCHANGED response
       ELSE EndRequest(400, "meetingId is missing", "")
    /\ UNCHANGED <<CHANNEL_MAP, rcVars, seVars, pnVars, whLocals, whOutcomes, calls>>

FetchOutcomes == {"transport_error", "http_error", "errors_field", "ok"}

\* Mutant: resp.raise_for_status() is missing, a non-success answer is parsed.
FetchTranscript_StatusUnchecked ==
    /\ wh_pc = "fetch"
    /\ calls' = Append(calls, Call("fetch_transcript", "", <<>>))
    /\ \E outcome \in FetchOutcomes :
          /\ fetch_outcome' = outcome
          /\ IF outcome \in {"ok", "http_error"}
             THEN /\ \E d \in TranscriptDatas : wh_transcript_data' = d
                  /\ wh_pc' = "render"
                  /\ UNCHANGED response
             ELSE /\ EndRequest(500, "Internal Server Error", "")
                  /\ UNCHANGED wh_transcript_data
    /\ UNCHANGED <<CHANNEL_MAP, rcVars, seVars, pnVars, wh_meeting_id, wh_title,
                   wh_participants, wh_transcript, wh_channel, wh_summary,
                   generate_outcome, post_outcome>>

\* transcript_data = fetch_transcript(meeting_id): requests.post raises
\* (timeout included), raise_for_status() raises, "errors" in data raises,
\* or data["data"]["transcript"] is returned.
FetchTranscript ==
    /\ wh_pc = "fetch"
    /\ calls' = Append(calls, Call("fetch_transcript", "", <<>>))
    /\ \E outcome \in FetchOutcomes :
          /\ fetch_outcome' = outcome
          /\ IF outcome = "ok"
             THEN /\ \E d \in TranscriptDatas : wh_transcript_data' = d
                  /\ wh_pc' = "render"
                  /\ UNCHANGED response
             ELSE /\ EndRequest(500, "Internal Server Error", "")
                  /\ UNCHANGED wh_transcript_data
    /\ UNCHANGED <<CHANNEL_MAP, rcVars, seVars, pnVars, wh_meeting_id, wh_title,
                   wh_participants, wh_transcript, wh_channel, wh_summary,
                   generate_outcome, post_outcome>>

\* Mutant: the "if not transcript" check is missing.
RenderTranscript_NoEmptyCheck ==
    /\ wh_pc = "render"
    /\ IF wh_transcript_data.isNone
       THEN /\ EndRequest(500, "Internal Server Error", "")
            /\ UNCHANGED <<wh_title, wh_participants, wh_transcript>>
       ELSE /\ wh_title' = DictGet(wh_transcript_data.title, PyStr(UntitledMeeting))
            /\ wh_participants' = GetOrEmptyList(wh_transcript_data.participants)
            /\ wh_transcript' =
                  RenderSentences(GetOrEmptyList(wh_transcript_data.sentences))
            /\ wh_pc' = "resolve" /\ UNCHANGED response
    /\ UNCHANGED <<CHANNEL_MAP, rcVars, seVars, pnVars, wh_meeting_id,
                   wh_transcript_data, wh_channel, wh_summary, whOutcomes, calls>>

\* title, participants, sentences, transcript; if not transcript: return
\* ..., 400. transcript_data.get raises AttributeError on None.
RenderTranscript ==
    /\ wh_pc = "render"
    /\ IF wh_transcript_data.isNone
       THEN /\ EndRequest(500, "Internal Server Error", "")
            /\ UNCHANGED <<wh_title, wh_participants, wh_transcript>>
       ELSE /\ wh_title' = DictGet(wh_transcript_data.title, PyStr(UntitledMeeting))
            /\ wh_participants' = GetOrEmptyList(wh_transcript_data.participants)
            /\ wh_transcript' =
                  RenderSentences(GetOrEmptyList(wh_transcript_data.sentences))
            /\ IF RenderSentences(GetOrEmptyList(wh_transcript_data.sentences)) = <<>>
               THEN EndRequest(400, "transcript is empty", "")
               ELSE wh_pc' = "resolve" /\ UNCHANGED response
    /\ UNCHANGED <<CHANNEL_MAP, rcVars, seVars, pnVars, wh_meeting_id,
                   wh_transcript_data, wh_channel, wh_summary, whOutcomes, calls>>

\* resolve_channel(None): "None in CHANNEL_MAP" is False and the first
\* "key in title" of the loop raises TypeError.
ResolveRaises(t) ==
    t.t = "None" /\ \E i \in 1..Len(CHANNEL_MAP) : CHANNEL_MAP[i].key # DefaultKey

\* Mutant: the title is not looked up, every summary goes to the default.
ResolveChannel_AlwaysDefault ==
    /\ wh_pc = "resolve"
    /\ wh_channel' = CHANNEL_MAP[IndexOfKey(CHANNEL_MAP, DefaultKey)].channel
    /\ wh_pc' = "generate"
    /\ UNCHANGED <<CHANNEL_MAP, rcVars, seVars, pnVars, wh_meeting_id,
                   wh_transcript_data, wh_title, wh_participants, wh_transcript,
                   wh_summary, whOutcomes, calls, response>>

\* channel = resolve_channel(title); if not channel: return ..., 400
ResolveChannel ==
    /\ wh_pc = "resolve"
    /\ IF ResolveRaises(wh_title)
       THEN EndRequest(500, "Internal Server Error", "") /\ UNCHANGED wh_channel
       ELSE LET ch == IF wh_title.t = "None"
                      THEN CHANNEL_MAP[IndexOfKey(CHANNEL_MAP, DefaultKey)].channel
                      ELSE resolve_channel(wh_title.v)
            IN  /\ wh_channel' = ch
                /\ IF ch = ""
                   THEN EndRequest(400, "no matching channel found", "")
                   ELSE wh_pc' = "generate" /\ UNCHANGED response
    /\ UNCHANGED <<CHANNEL_MAP, rcVars, seVars, pnVars, wh_meeting_id,
                   wh_transcript_data, wh_title, wh_participants, wh_transcript,
                   wh_summary, whOutcomes, calls>>

GenerateOutcomes == {"api_error", "ok"}

\* summary = generate_summary(title, participants, transcript): the join of
\* the participant names raises, client.messages.create raises, or the text
\* of the first content block is returned.
GenerateSummary ==
    /\ wh_pc = "generate"
    /\ calls' = Append(calls, Call("generate_summary", "", wh_transcript))
    /\ IF JoinNames(ExtractNames(wh_participants)).raised
       THEN /\ generate_outcome' = "names_type_error"
            /\ EndRequest(500, "Internal Server Error", "")
            /\ UNCHANGED wh_summary
       ELSE \E outcome \in GenerateOutcomes :
               /\ generate_outcome' = outcome
               /\ IF outcome = "ok"
                  THEN /\ \E text \in Summaries : wh_summary' = text
                       /\ wh_pc' = "post"
                       /\ UNCHANGED response
                  ELSE /\ EndRequest(500, "Internal Server Error", "")
                       /\ UNCHANGED wh_summary
    /\ UNCHANGED <<CHANNEL_MAP, rcVars, seVars, pnVars, wh_meeting_id,
                   wh_transcript_data, wh_title, wh_participants, wh_transcript,
                   wh_channel, fetch_outcome, post_outcome>>

PostOutcomes == {"transport_error", "http_error", "not_ok", "ok"}

\* post_to_slack(channel, title, summary): the summary is sanitized and sent;
\* requests.post raises, raise_for_status() raises, "ok" is false, or the
\* answer is returned.
PostToSlack ==
    /\ wh_pc = "post"
    /\ calls' = Append(calls, Call("post_to_slack", wh_channel, strip_emojis(wh_summary)))
    /\ \E outcome \in PostOutcomes :
          /\ post_outcome' = outcome
          /\ IF outcome = "ok"
             THEN wh_pc' = "respond" /\ UNCHANGED response
             ELSE EndRequest(500, "Internal Server Error", "")
    /\ UNCHANGED <<CHANNEL_MAP, rcVars, seVars, pnVars, whLocals, fetch_outcome,
                   generate_outcome>>

\* return jsonify({"status": "ok", "channel": channel})
RespondOk ==
    /\ wh_pc = "respond"
    /\ EndRequest(200, "", wh_channel)
    /\ UNCHANGED <<CHANNEL_MAP, rcVars, seVars, pnVars, whLocals, whOutcomes, calls>>

Next ==
    \/ CheckMeetingId
    \/ FetchTranscript
    \/ RenderTranscript
    \/ ResolveChannel
    \/ GenerateSummary
    \/ PostToSlack
    \/ RespondOk

Spec == Init /\ [][Next]_vars

(***************************************************************************)
(* Claims about webhook_fireflies (checked under Spec).                    *)
(***************************************************************************)
FetchFailed == fetch_outcome \in {"transport_error", "http_error", "errors_field"}
GenerateFailed == generate_outcome \in {"names_type_error", "api_error"}
PostFailed == post_outcome \in {"transport_error", "http_error", "not_ok"}
CallNames == [i \in 1..Len(calls) |-> calls[i].fn]

\* C1: a failure at any step stops every later step. After a failed
\* fetch_transcript neither generate_summary nor post_to_slack is ever
\* called, after a failed generate_summary post_to_slack is never called,
\* and after any of these, or a failed post_to_slack, the request has ended
\* with an error, never with the success response.
C1_FailureAbortsChain ==
    /\ FetchFailed => ~Called("generate_summary") /\ ~Called("post_to_slack")
    /\ GenerateFailed => ~Called("post_to_slack")
    /\ (FetchFailed \/ GenerateFailed \/ PostFailed) =>
          /\ wh_pc = "done"
          /\ response.status = 500
          /\ response.channel = ""

\* C1 witness: generate_summary failed at the provider after a successful
\* fetch, and the request ended with the error, nothing posted.
C1_Witness ==
    /\ wh_pc = "done"
    /\ fetch_outcome = "ok"
    /\ generate_outcome = "api_error"
    /\ CallNames = <<"fetch_transcript", "generate_summary">>
    /\ response.status = 500

NoUtterances(d) == ~d.isNone /\ (d.sentences.t \in {"absent", "None"} \/ d.sentences = PyList(<<>>))

\* C2: when the fetched transcript has no utterances (sentences missing, null
\* or empty) the request ends with the 400 "transcript is empty" error and
\* neither generate_summary nor post_to_slack is called at any point.
C2_EmptyTranscriptShortCircuits ==
    (fetch_outcome = "ok" /\ NoUtterances(wh_transcript_data)) =>
        /\ ~Called("generate_summary")
        /\ ~Called("post_to_slack")
        /\ wh_pc \in {"render", "done"}
        /\ wh_pc = "done" =>
              response = [status |-> 400, error |-> "transcript is empty", channel |-> ""]

\* C2 witness: a transcript whose sentences are null ended the request with
\* the "transcript is empty" error after the one fetch.
C2_Witness ==
    /\ wh_pc = "done"
    /\ fetch_outcome = "ok"
    /\ ~wh_transcript_data.isNone
    /\ wh_transcript_data.sentences = PyNone
    /\ wh_transcript_data.title = PyStr(ShippedChannelMap[1].key)
    /\ CallNames = <<"fetch_transcript">>
    /\ response.status = 400 /\ response.error = "transcript is empty"

\* C3: when the request ends with the success response, fetch_transcript,
\* generate_summary and post_to_slack were each called exactly once, in that
\* order, and the channel passed to post_to_slack, the channel of the response
\* and resolve_channel(title) are the same value.
C3_SuccessMeansFullChain ==
    response.status = 200 =>
        /\ CallNames = <<"fetch_transcript", "generate_summary", "post_to_slack">>
        /\ wh_title.t = "str"
        /\ calls[3].channel = resolve_channel(wh_title.v)
        /\ response.channel = resolve_channel(wh_title.v)

\* C3 witness: meeting "abc123", title "[ONLINE] murmo - Weekly Marketing
\* Sync": the summary with a stray U+1F600 on a body line was posted without
\* it to the channel of that key, and that channel was answered.
C3_Witness ==
    /\ response.status = 200
    /\ wh_meeting_id = PyStr(Abc123)
    /\ wh_title = PyStr(ShippedChannelMap[1].key)
    /\ response.channel = "C08MHTH29BR"
    /\ calls[3].channel = "C08MHTH29BR"
    /\ \E k \in 1..Len(wh_summary) : wh_summary[k] = 128512
    /\ \A k \in 1..Len(calls[3].text) : calls[3].text[k] # 128512

====
